---------------------------- MODULE Spec2Model ----------------------------
(***************************************************************************)
(* redease: Redis response cache for Express.                              *)
(*                                                                         *)
(* The model follows src/src/errors.ts (the cache() middleware, lines      *)
(* 44-171), src/unnamed/part_001 (the invalidate() middleware and the      *)
(* programmatic invalidation functions), src/src/utils.ts                  *)
(* (generateCacheKey) and src/src/redis-client.ts (the handle's status).   *)
(*                                                                         *)
(* One request is one slot of `reqs`.  A handler runs synchronously up to  *)
(* its next await; every await (isCacheable, get, keys, del) is a point at *)
(* which other requests, the store and the connection interleave.          *)
(***************************************************************************)
EXTENDS Integers, Sequences, FiniteSets, TLC

VARIABLES
    cacheOptions,   \* options of the cache() instance          (errors.ts:44)
    invOptions,     \* options of the invalidate() instance     (part_001:7)
    cacheClient,    \* redisClient captured by cache()          (errors.ts:50-60)
    invClient,      \* redisClient captured by invalidate()     (part_001:9)
    status,         \* status field of the Redis handle
    store,          \* the Redis keyspace: key -> [value, ttl]
    reqs,           \* the requests in flight, one record per slot
    redisClient,    \* the module's singleton handle      (redis-client.ts:5)
    handles,        \* the handles createRedisClient opened: name -> [status, open]
    closes,         \* handles whose quit a closeRedisClient call awaits
    closed,         \* history: how the last closeRedisClient call ended
    database        \* what the application's own data source holds for a route

vars == <<cacheOptions, invOptions, cacheClient, invClient, status, store, reqs,
          redisClient, handles, closes, closed, database>>

----------------------------------------------------------------------------
(* Bounds *)

MaxInFlight == 2

Req == 1..MaxInFlight

----------------------------------------------------------------------------
(* Values *)

Null == "(null)"            \* JS null / undefined, distinct from every string
Client == "client"          \* the Redis handle

DefaultTtl == 60
DefaultTimeout == 5000

Methods == {"GET", "POST"}
Urls == {"/a"}

\* ioredis statuses and the transitions of the connection.
Statuses == {"connecting", "connect", "ready", "reconnecting"}

NextStatus(s) ==
    CASE s = "connecting"   -> {"connect", "reconnecting"}
      [] s = "connect"      -> {"ready", "reconnecting"}
      [] s = "ready"        -> {"reconnecting"}
      [] s = "reconnecting" -> {"connecting"}
      [] OTHER              -> {}

\* JavaScript values a downstream handler passes to res.json, named by their
\* literal; the last one has a member JSON.stringify drops.
Bodies == {"{a:1}", "{a:2,u:undefined}"}

\* The resource of a route before and after a mutating request changes it.
Versions == <<"{a:1}", "{a:2}">>

JSON_stringify(data) ==
    CASE data = "{a:1}"             -> "{\"a\":1}"
      [] data = "{a:2}"             -> "{\"a\":2}"
      [] data = "{a:2,u:undefined}" -> "{\"a\":2}"
      [] OTHER                      -> Null

SyntaxError == "SyntaxError"

JSON_parse(text) ==
    CASE text = "{\"a\":1}"     -> "{a:1}"
      [] text = "{\"a\":2}"     -> "{a:2}"
      [] text = " {\"a\":2}\n"  -> "{a:2}"
      [] OTHER                  -> SyntaxError

\* What a handler can hand to res.end.
Chunks == {" {\"a\":2}\n", "<p>a</p>", ""}

JsonType == "application/json; charset=utf-8"
ContentTypes == {JsonType, "text/html", Null}

StatusCodes == {200, 404}

\* JavaScript truthiness of a string-or-null.
\* Mutant: only undefined is falsy.
Truthy_NotNull(v) == v # Null

Truthy(v) == v # Null /\ v # ""

----------------------------------------------------------------------------
(* Options *)

\* options.key is undefined, a string or a function; a function is named by
\* what it returns for a request.
KeyUndefined == [type |-> "undefined", value |-> Null]
KeyString(str) == [type |-> "string", value |-> str]
KeyFunction(name) == [type |-> "function", value |-> name]

\* An array given as options.key (the type does not allow it, the README's
\* "Invalidate multiple keys" example passes one).
KeyList(list) == [type |-> "array", value |-> list]

\* String(array): the elements joined by commas.
RECURSIVE ArrayToString(_)
ArrayToString(list) ==
    IF list = << >> THEN ""
    ELSE IF Len(list) = 1 THEN list[1]
    ELSE list[1] \o "," \o ArrayToString(Tail(list))

\* The key functions of the model: req => `user:${req.originalUrl}`.
CallKeyFunction(name, req) ==
    CASE name = "userByUrl" -> "user:" \o req.originalUrl
      [] OTHER              -> name

\* options.ttl is 0 when not given (undefined and 0 are both falsy).
DefaultCache == [key |-> KeyUndefined, prefix |-> Null, ttl |-> 0, isCacheable |-> FALSE]
UserCache ==
    [key |-> KeyFunction("userByUrl"), prefix |-> "app", ttl |-> 5, isCacheable |-> TRUE]

\* The routes of the model: the options of cache() on the GET route and of
\* invalidate() on the mutating route.
Setups ==
    { <<DefaultCache, [key |-> KeyString("GET:/a"), prefix |-> Null, pattern |-> Null]>>,
      <<UserCache, [key |-> KeyFunction("userByUrl"), prefix |-> "app", pattern |-> Null]>>,
      <<DefaultCache, [key |-> KeyUndefined, prefix |-> Null, pattern |-> "*:/a"]>> }

CacheOptionsSet == {setup[1] : setup \in Setups}
InvalidateOptionsSet == {setup[2] : setup \in Setups}

\* Mutant: a literal key is not used; the key is derived from the request.
generateCacheKey_LiteralIgnored(req, options) ==
    LET prefix == IF Truthy(options.prefix) THEN options.prefix ELSE "cache"
    IN  prefix \o ":" \o req.method \o ":" \o req.originalUrl

generateCacheKey(req, options) ==
    LET prefix == IF Truthy(options.prefix) THEN options.prefix ELSE "cache"
        key == IF options.key.type = "function"
                  THEN CallKeyFunction(options.key.value, req)
               ELSE IF options.key.type = "array"   \* truthy; `${key}` joins it
                  THEN ArrayToString(options.key.value)
               ELSE IF Truthy(options.key.value)
                  THEN options.key.value
               ELSE req.method \o ":" \o req.originalUrl
    IN  prefix \o ":" \o key

\* const ttl = options.ttl || 60
EffectiveTtl(options) == IF options.ttl # 0 THEN options.ttl ELSE DefaultTtl

\* Every key a request of the model can derive.
KeySpace ==
    { generateCacheKey([method |-> m, originalUrl |-> u], o) :
        m \in Methods, u \in Urls, o \in CacheOptionsSet \cup InvalidateOptionsSet }

\* Redis glob matching restricted to literal characters and `*`.
RECURSIVE GlobMatch(_, _)
GlobMatch(pattern, key) ==
    IF pattern = "" THEN key = ""
    ELSE LET p == SubSeq(pattern, 1, 1)
             ps == SubSeq(pattern, 2, Len(pattern))
         IN  IF p = "*"
                THEN GlobMatch(ps, key)
                     \/ (key # "" /\ GlobMatch(pattern, SubSeq(key, 2, Len(key))))
                ELSE /\ key # ""
                     /\ SubSeq(key, 1, 1) = p
                     /\ GlobMatch(ps, SubSeq(key, 2, Len(key)))

----------------------------------------------------------------------------
(* Requests *)

\* How an awaited store call settled, other than with a value.
NotYet == "(pending)"
Rejected == "(rejected)"
TimedOut == "(timeout)"
Unsent == [sent |-> FALSE, statusCode |-> 0, text |-> ""]

\* A free slot.  res.locals.cacheStatus is undefined until the handler sets it.
IdleReq ==
    [ route       |-> "none",
      method      |-> "GET",
      originalUrl |-> "/a",
      pc          |-> "idle",
      cacheStatus |-> [defined |-> FALSE, hit |-> FALSE, key |-> ""],
      wrapped     |-> FALSE,     \* res.json / res.end replaced by the wrappers
      calls       |-> << >>,     \* calls the handler made, in order
      response    |-> Unsent,    \* what reached the original emitter
      lateGet     |-> FALSE,     \* a get abandoned by the timeout, still running
      pendingSetex|-> << >>,     \* setex commands issued and not yet settled
      delKeys     |-> {},        \* keys of the del command in flight
      escaped     |-> FALSE,     \* the handler's promise rejected
      seenStatus  |-> "",        \* history: status read by the availability check
      predicate   |-> "",        \* history: what isCacheable did
      result      |-> NotYet,    \* history: how the awaited store call settled
      promised    |-> Null,      \* history: the body held under this request's key
                                 \* when it arrived, until the key is removed
      overwritten |-> FALSE,     \* history: another body was written over it
      arg         |-> "",        \* key or pattern given to invalidateByKey/-Pattern
      returned    |-> [done |-> FALSE, value |-> 0],   \* what the call returned
      thrown      |-> "",        \* what the call threw
      derived     |-> "" ]       \* what a call of generateCacheKey returned

Count(seq, x) == Cardinality({i \in 1..Len(seq) : seq[i] = x})

NextCalls(q) == Count(q.calls, "next") + Count(q.calls, "next(err)")
StoreOps(q) == Len(q.calls) - NextCalls(q)
             - Count(q.calls, "isCacheable") - Count(q.calls, "generateCacheKey")

\* next(): the downstream handler starts.
CallNext(q) == [q EXCEPT !.calls = Append(@, "next"), !.pc = "downstream"]

----------------------------------------------------------------------------
(* cache(): the response emitters *)

\* async cacheResponse: JSON.stringify, then setex; the caller does not await.
cacheResponse(q, key, data, ttl) ==
    [q EXCEPT !.calls = Append(@, "setex"),
              !.pendingSetex = Append(@, [key |-> key, ttl |-> ttl,
                                          value |-> JSON_stringify(data)])]

\* Mutant: the upper end of the range is not tested.
IsSuccess_NoUpperBound(statusCode) == statusCode >= 200

\* res.statusCode >= 200 && res.statusCode < 300
IsSuccess(statusCode) == statusCode >= 200 /\ statusCode < 300

\* contentType is a string that includes "application/json"
IsJsonContentType(contentType) == contentType = JsonType

\* The response's own end: the body reaches the client.
originalEnd(q, statusCode, chunk) ==
    [q EXCEPT !.response = [sent |-> TRUE, statusCode |-> statusCode, text |-> chunk],
              !.pc = "done"]

\* res.end as replaced on a miss.
wrappedEnd(q, statusCode, chunk, contentType) ==
    LET key == generateCacheKey(q, cacheOptions)
        cached ==
            IF /\ IsSuccess(statusCode)
               /\ Truthy(chunk)
               /\ IsJsonContentType(contentType)
               /\ JSON_parse(chunk) # SyntaxError
            THEN cacheResponse(q, key, JSON_parse(chunk), EffectiveTtl(cacheOptions))
            ELSE q
    IN  originalEnd(cached, statusCode, chunk)

\* res.end as the downstream code finds it.
res_end(q, statusCode, chunk, contentType) ==
    IF q.wrapped THEN wrappedEnd(q, statusCode, chunk, contentType)
                 ELSE originalEnd(q, statusCode, chunk)

\* The response's own json, bound to res: it serialises the body, sets the JSON
\* content type and finishes through res.end as it is at the time of the call.
originalJson(q, statusCode, body) ==
    res_end(q, statusCode, JSON_stringify(body), JsonType)

\* Mutant: the wrapper awaits cacheResponse before it forwards the body.
wrappedJson_Awaits(q, statusCode, body) ==
    IF IsSuccess(statusCode)
       THEN [cacheResponse(q, generateCacheKey(q, cacheOptions), body,
                           EffectiveTtl(cacheOptions)) EXCEPT !.pc = "setex"]
       ELSE originalJson(q, statusCode, body)

\* res.json as replaced on a miss.
wrappedJson(q, statusCode, body) ==
    LET key == generateCacheKey(q, cacheOptions)
        cached == IF IsSuccess(statusCode)
                     THEN cacheResponse(q, key, body, EffectiveTtl(cacheOptions))
                     ELSE q
    IN  originalJson(cached, statusCode, body)

\* res.json as the downstream code finds it.
res_json(q, statusCode, body) ==
    IF q.wrapped THEN wrappedJson(q, statusCode, body)
                 ELSE originalJson(q, statusCode, body)

----------------------------------------------------------------------------
(* cache(): the request handler *)

\* Mutant: only the presence of the handle is tested.
RedisNotAvailable_IgnoresStatus(client, st) == client = Null

\* !redisClient || redisClient.status !== "ready"
RedisNotAvailable(client, st) == client = Null \/ st # "ready"

\* The catch block of the read path: log, then next().
CatchRead(q) == CallNext(q)

\* From `if (!cacheable)` to the start of the race.
AfterIsCacheable(q, cacheable) ==
    IF ~cacheable THEN CallNext(q)
    ELSE LET key == generateCacheKey(q, cacheOptions)
             q1 == [q EXCEPT !.cacheStatus.key = key,
                             !.calls = Append(@, "generateCacheKey"),
                             !.seenStatus = IF status = "ready" THEN "ready" ELSE "other"]
         IN  IF RedisNotAvailable(cacheClient, status)
                THEN CallNext(q1)
                ELSE [q1 EXCEPT !.calls = Append(@, "get"), !.pc = "get"]

\* Mutant: a failing predicate leaves cacheable at its initial true.
IsCacheableFailed_Cacheable(q) == AfterIsCacheable(q, TRUE)

\* The catch block around isCacheable: the request is not cacheable.
IsCacheableFailed(q) == AfterIsCacheable(q, FALSE)

\* isCacheable returned or resolved.
IsCacheableReturned(q, cacheable) ==
    AfterIsCacheable([q EXCEPT !.predicate = IF cacheable THEN "true" ELSE "false"],
                     cacheable)

\* isCacheable threw or rejected.
IsCacheableThrew(q) == IsCacheableFailed([q EXCEPT !.predicate = "error"])

\* Mutant: no method is bypassed.
NotGet_Never(q) == FALSE

\* req.method !== "GET"
NotGet(q) == q.method # "GET"

\* Replace res.json and res.end, then next().
Miss(q) == CallNext([q EXCEPT !.wrapped = TRUE])

\* Mutant: the hit branch does not return.
Hit_FallsThrough(q, cachedData) ==
    LET q1 == [q EXCEPT !.cacheStatus.hit = TRUE]
        data == JSON_parse(cachedData)
    IN  IF data = SyntaxError THEN CatchRead(q1)
                              ELSE Miss(res_json(q1, 200, data))

\* if (cachedData) { ... return res.json(data) }
Hit(q, cachedData) ==
    LET q1 == [q EXCEPT !.cacheStatus.hit = TRUE]
        data == JSON_parse(cachedData)
    IN  IF data = SyntaxError THEN CatchRead(q1)
                              ELSE res_json(q1, 200, data)

\* Mutant: the value of get is not looked at.
AfterGet_NeverHit(q, cachedData) == Miss([q EXCEPT !.result = cachedData])

\* The race settled with the value of get.
AfterGet(q, cachedData) ==
    LET q1 == [q EXCEPT !.result = cachedData]
    IN  IF Truthy(cachedData) THEN Hit(q1, cachedData) ELSE Miss(q1)

\* Mutant: a timeout is handled as a miss.
AfterTimeout_AsMiss(q) == Miss([q EXCEPT !.lateGet = TRUE, !.result = TimedOut])

\* The race settled with the timer's CacheError; the get keeps running.
AfterTimeout(q) == CatchRead([q EXCEPT !.lateGet = TRUE, !.result = TimedOut])

\* Mutant: a failed get is issued again.
AfterGetError_Retries(q) == [q EXCEPT !.result = Rejected, !.calls = Append(@, "get")]

\* The race settled with the rejection of get.
AfterGetError(q) == CatchRead([q EXCEPT !.result = Rejected])

\* The handler up to its first await, for a request arriving in slot q.
\* pred is what options.isCacheable does when called.
CacheHandler(q, pred) ==
    IF cacheClient = Null
       THEN CallNext([q EXCEPT !.seenStatus = "absent"])  \* createRedisClient threw
    ELSE IF NotGet(q) THEN CallNext(q)
    ELSE LET q1 == [q EXCEPT !.cacheStatus = [defined |-> TRUE, hit |-> FALSE, key |-> ""]]
             q2 == [q1 EXCEPT !.calls = Append(@, "isCacheable")]
         IN  IF ~cacheOptions.isCacheable THEN AfterIsCacheable(q1, TRUE)
             ELSE CASE pred = "true"   -> IsCacheableReturned(q2, TRUE)
                    [] pred = "false"  -> IsCacheableReturned(q2, FALSE)
                    [] pred = "throws" -> IsCacheableThrew(q2)
                    [] OTHER           -> [q2 EXCEPT !.pc = "isCacheable"]

Predicates == {"true", "false", "throws", "promise"}

----------------------------------------------------------------------------
(* invalidate(): the request handler *)

\* The catch block of invalidate: log, then next().
CatchInvalidate(q) == CallNext(q)

\* The handler up to its first await.
InvalidateHandler(q) ==
    LET q1 == [q EXCEPT !.seenStatus = IF invClient = Null THEN "absent"
                                       ELSE IF status = "ready" THEN "ready" ELSE "other"]
    IN  IF RedisNotAvailable(invClient, status) THEN CallNext(q1)
        ELSE IF Truthy(invOptions.pattern)
           THEN [q1 EXCEPT !.calls = Append(@, "keys"), !.pc = "keys"]
        ELSE [q1 EXCEPT !.calls = @ \o <<"generateCacheKey", "del">>,
                        !.delKeys = {generateCacheKey(q, invOptions)},
                        !.pc = "del"]

\* keys settled with the matching keys.
AfterKeys(q, keys) ==
    IF keys # {} THEN [q EXCEPT !.calls = Append(@, "del"), !.delKeys = keys, !.pc = "del"]
                 ELSE CallNext(q)

\* del settled.
AfterDel(q) == CallNext([q EXCEPT !.delKeys = {}])

\* Mutant: the catch block only logs.
AfterDelError_NoNext(q) == [q EXCEPT !.delKeys = {}, !.result = Rejected, !.pc = "stuck"]

\* del rejected.
AfterDelError(q) == CatchInvalidate([q EXCEPT !.delKeys = {}, !.result = Rejected])

\* keys rejected.
AfterKeysError(q) == CatchInvalidate([q EXCEPT !.result = Rejected])

----------------------------------------------------------------------------
(* The store *)

Get(key) == IF key \in DOMAIN store THEN store[key].value ELSE Null

Setex(key, ttl, value) ==
    [k \in DOMAIN store \cup {key} |->
        IF k = key THEN [value |-> value, ttl |-> ttl] ELSE store[k]]

\* SET without an expiry, by another client of the same store: ttl 0 marks an
\* entry that no setex wrote.
Set(key, value) == Setex(key, 0, value)

\* What another client may leave under a key: the empty string, and text
\* that is not JSON.
ForeignValues == {"", "oops"}

\* Mutant: del empties the store.
Del_All(keys) == << >>

Del(keys) == [k \in DOMAIN store \ keys |-> store[k]]

\* Mutant: keys answers with every key of the store.
Keys_All(pattern) == DOMAIN store

Keys(pattern) == {k \in DOMAIN store : GlobMatch(pattern, k)}

\* The key under which cache() serves request q.
KeyOf(q) == generateCacheKey(q, cacheOptions)

\* The keys under which the configured cache() serves GET requests.
CacheKeys == {generateCacheKey([method |-> "GET", originalUrl |-> u], cacheOptions) : u \in Urls}

\* History: the keys are gone, so what they held is promised to nobody.
Forget(rs, keys) ==
    [r \in Req |->
        IF rs[r].route = "cache" /\ KeyOf(rs[r]) \in keys
           THEN [rs[r] EXCEPT !.promised = Null]
           ELSE rs[r]]

\* History: key now holds value; requests promised another body are marked.
Overwrite(rs, key, value) ==
    [r \in Req |->
        IF /\ rs[r].route = "cache" /\ KeyOf(rs[r]) = key
           /\ rs[r].promised # Null /\ rs[r].promised # JSON_parse(value)
           THEN [rs[r] EXCEPT !.overwritten = TRUE]
           ELSE rs[r]]

----------------------------------------------------------------------------
(* Actions *)

Settings == <<cacheOptions, invOptions, cacheClient, invClient>>

\* The state of redis-client.ts.
Lifecycle == <<redisClient, handles, closes, closed>>

\* A finished request has no effect on anything else, so its slot is released
\* before any other step is taken (Busy guards every other action).
Finished(q) == q.pc = "done" /\ q.pendingSetex = << >> /\ ~q.lateGet

Busy == \A r \in Req : ~Finished(reqs[r])

\* A request arrives in the lowest free slot.
FreeSlot(r) == reqs[r].pc = "idle" /\ \A s \in 1..(r - 1) : reqs[s].pc # "idle"

\* A request reaches the cache() handler.  promise is history: the body the
\* store holds under the request's key at that moment, or Null.
Arrive(r, m, u, pred, promise) ==
    /\ Busy
    /\ FreeSlot(r)
    /\ cacheOptions.isCacheable \/ pred = "true"
    /\ LET q == [IdleReq EXCEPT !.route = "cache", !.method = m, !.originalUrl = u,
                                !.promised = promise]
       IN  reqs' = [reqs EXCEPT ![r] = CacheHandler(q, pred)]
    /\ UNCHANGED <<Settings, database, Lifecycle, status, store>>

CacheRequest(r, m, u, pred) == Arrive(r, m, u, pred, Null)

\* The same arrival, with the history of what the store holds for it.
CacheRequestAfterWrite(r, m, u, pred) ==
    LET cached == Get(generateCacheKey([method |-> m, originalUrl |-> u], cacheOptions))
    IN  Arrive(r, m, u, pred,
               IF m = "GET" /\ cached # Null /\ JSON_parse(cached) # SyntaxError
                  THEN JSON_parse(cached) ELSE Null)

IsCacheableSettle(r, result) ==
    /\ Busy
    /\ reqs[r].pc = "isCacheable"
    /\ reqs' = [reqs EXCEPT ![r] =
                  CASE result = "true"  -> IsCacheableReturned(@, TRUE)
                    [] result = "false" -> IsCacheableReturned(@, FALSE)
                    [] OTHER            -> IsCacheableThrew(@)]
    /\ UNCHANGED <<Settings, database, Lifecycle, status, store>>

GetResolve(r) ==
    /\ Busy
    /\ reqs[r].pc = "get"
    /\ reqs' = [reqs EXCEPT ![r] = AfterGet(@, Get(@.cacheStatus.key))]
    /\ UNCHANGED <<Settings, database, Lifecycle, status, store>>

GetReject(r) ==
    /\ Busy
    /\ reqs[r].pc = "get"
    /\ reqs' = [reqs EXCEPT ![r] = AfterGetError(@)]
    /\ UNCHANGED <<Settings, database, Lifecycle, status, store>>

GetTimeout(r) ==
    /\ Busy
    /\ reqs[r].pc = "get"
    /\ reqs' = [reqs EXCEPT ![r] = AfterTimeout(@)]
    /\ UNCHANGED <<Settings, database, Lifecycle, status, store>>

\* The abandoned get settles; nothing is listening.
LateGetSettle(r) ==
    /\ Busy
    /\ reqs[r].lateGet
    /\ reqs' = [reqs EXCEPT ![r].lateGet = FALSE]
    /\ UNCHANGED <<Settings, database, Lifecycle, status, store>>

\* Where the emitters are the response's own, the answer passes through as
\* it is, and one answer of each emitter stands for all.
AnswersJson(q, statusCode, body) == q.wrapped \/ (statusCode = 200 /\ body = "{a:1}")
AnswersEnd(q, statusCode, chunk, contentType) ==
    q.wrapped \/ (q.route = "cache" /\ statusCode = 404 /\ chunk = "<p>a</p>"
                                    /\ contentType = "text/html")

\* The downstream handler answers with res.status(code).json(body).
DownstreamJson(r, statusCode, body) ==
    /\ Busy
    /\ reqs[r].pc = "downstream"
    /\ AnswersJson(reqs[r], statusCode, body)
    /\ reqs' = [reqs EXCEPT ![r] = res_json(@, statusCode, body)]
    /\ UNCHANGED <<Settings, database, Lifecycle, status, store>>

\* The downstream handler answers with res.end(chunk) under a content type.
DownstreamEnd(r, statusCode, chunk, contentType) ==
    /\ Busy
    /\ reqs[r].pc = "downstream"
    /\ AnswersEnd(reqs[r], statusCode, chunk, contentType)
    /\ reqs' = [reqs EXCEPT ![r] = res_end(@, statusCode, chunk, contentType)]
    /\ UNCHANGED <<Settings, database, Lifecycle, status, store>>

\* The store executes the oldest setex of request r.
SetexResolve(r) ==
    /\ Busy
    /\ reqs[r].pendingSetex # << >>
    /\ LET w == Head(reqs[r].pendingSetex)
       IN  /\ store' = Setex(w.key, w.ttl, w.value)
           /\ reqs' = [Overwrite(reqs, w.key, w.value) EXCEPT ![r].pendingSetex = Tail(@)]
    /\ UNCHANGED <<Settings, database, Lifecycle, status>>

\* The oldest setex of request r fails; the .catch logs it.
SetexReject(r) ==
    /\ Busy
    /\ reqs[r].pendingSetex # << >>
    /\ reqs' = [reqs EXCEPT ![r].pendingSetex = Tail(@)]
    /\ UNCHANGED <<Settings, database, Lifecycle, status, store>>

\* The ttl of an entry runs out.
Expire(k) ==
    /\ Busy
    /\ k \in DOMAIN store
    /\ store[k].ttl > 0
    /\ store' = Del({k})
    /\ reqs' = Forget(reqs, {k})
    /\ UNCHANGED <<Settings, database, Lifecycle, status>>

\* Another client of the store writes under a key of the cache.
ForeignWrite(k, v) ==
    /\ Busy
    /\ store' = Set(k, v)
    /\ reqs' = Overwrite(reqs, k, v)
    /\ UNCHANGED <<Settings, database, Lifecycle, status>>

InvalidateRequest(r, m, u) ==
    /\ Busy
    /\ FreeSlot(r)
    /\ LET q == [IdleReq EXCEPT !.route = "invalidate", !.method = m, !.originalUrl = u]
       IN  reqs' = [reqs EXCEPT ![r] = InvalidateHandler(q)]
    /\ UNCHANGED <<Settings, database, Lifecycle, status, store>>

KeysResolve(r) ==
    /\ Busy
    /\ reqs[r].pc = "keys"
    /\ reqs' = [reqs EXCEPT ![r] = AfterKeys(@, Keys(invOptions.pattern))]
    /\ UNCHANGED <<Settings, database, Lifecycle, status, store>>

KeysReject(r) ==
    /\ Busy
    /\ reqs[r].pc = "keys"
    /\ reqs' = [reqs EXCEPT ![r] = AfterKeysError(@)]
    /\ UNCHANGED <<Settings, database, Lifecycle, status, store>>

DelResolve(r) ==
    /\ Busy
    /\ reqs[r].pc = "del"
    /\ store' = Del(reqs[r].delKeys)
    /\ reqs' = [Forget(reqs, reqs[r].delKeys) EXCEPT ![r] = AfterDel(@)]
    /\ UNCHANGED <<Settings, database, Lifecycle, status>>

DelReject(r) ==
    /\ Busy
    /\ reqs[r].pc = "del"
    /\ reqs' = [reqs EXCEPT ![r] = AfterDelError(@)]
    /\ UNCHANGED <<Settings, database, Lifecycle, status, store>>

\* The response is complete and nothing of the request is left running: the
\* slot is free again.
Release(r) ==
    /\ Finished(reqs[r])
    /\ reqs' = [reqs EXCEPT ![r] = IdleReq]
    /\ UNCHANGED <<Settings, database, Lifecycle, status, store>>

\* The connection moves on.
StatusChange(s) ==
    /\ Busy
    /\ s \in NextStatus(status)
    /\ status' = s
    /\ UNCHANGED <<Settings, database, Lifecycle, store, reqs>>

----------------------------------------------------------------------------
(* Specification *)

Init ==
    /\ \E setup \in Setups : cacheOptions = setup[1] /\ invOptions = setup[2]
    /\ cacheClient \in {Client, Null}
    /\ invClient = cacheClient
    /\ status \in {"connecting", "ready"}
    /\ store = << >>
    /\ reqs = [r \in Req |-> IdleReq]
    /\ redisClient = Null
    /\ handles = << >>
    /\ closes = {}
    /\ closed = "none"
    /\ database = Versions[1]

Background ==
    \/ \E r \in Req, result \in {"true", "false", "reject"} : IsCacheableSettle(r, result)
    \/ \E r \in Req : GetResolve(r)
    \/ \E r \in Req : GetReject(r)
    \/ \E r \in Req : GetTimeout(r)
    \/ \E r \in Req : LateGetSettle(r)
    \/ \E r \in Req, c \in StatusCodes, b \in Bodies : DownstreamJson(r, c, b)
    \/ \E r \in Req, c \in StatusCodes, ch \in Chunks, ct \in ContentTypes :
          DownstreamEnd(r, c, ch, ct)
    \/ \E r \in Req : SetexResolve(r)
    \/ \E r \in Req : SetexReject(r)
    \/ \E k \in KeySpace : Expire(k)
    \/ \E k \in CacheKeys, v \in ForeignValues : ForeignWrite(k, v)
    \/ \E r \in Req, m \in Methods \ {"GET"}, u \in Urls : InvalidateRequest(r, m, u)
    \/ \E r \in Req : KeysResolve(r)
    \/ \E r \in Req : KeysReject(r)
    \/ \E r \in Req : DelResolve(r)
    \/ \E r \in Req : DelReject(r)
    \/ \E s \in Statuses : StatusChange(s)

Steps ==
    \/ \E r \in Req, m \in Methods, u \in Urls, pred \in Predicates :
          CacheRequest(r, m, u, pred)
    \/ Background

Next ==
    \/ Steps
    \/ \E r \in Req : Release(r)

Spec == Init /\ [][Next]_vars

\* The same program, with every arriving GET remembering what the store
\* holds under its key.
StepsAfterWrite ==
    \/ \E r \in Req, m \in Methods, u \in Urls, pred \in Predicates :
          CacheRequestAfterWrite(r, m, u, pred)
    \/ Background

NextAfterWrite ==
    \/ StepsAfterWrite
    \/ \E r \in Req : Release(r)

SpecRoundTrip == Init /\ [][NextAfterWrite]_vars

----------------------------------------------------------------------------
(* Properties of cache() *)

CacheGets == {r \in Req : reqs[r].route = "cache" /\ reqs[r].method = "GET"}

Resolved(q) == q.result \notin {NotYet, Rejected, TimedOut}

\* The body a response carries, as a JSON value.
Payload(q) == JSON_parse(q.response.text)

\* C1: a GET whose handler finds the handle absent or its status other than
\* ready issues no store operation, calls next exactly once and without an
\* argument, and leaves cacheStatus.hit = false.
C1_AsWritten ==
    \A r \in CacheGets :
        LET q == reqs[r]
        IN  q.seenStatus \in {"absent", "other"} =>
                /\ StoreOps(q) = 0
                /\ q.calls # << >> /\ q.calls[Len(q.calls)] = "next"
                /\ NextCalls(q) = 1
                /\ q.cacheStatus.defined /\ ~q.cacheStatus.hit
                /\ ~q.escaped

\* C1, what the code does: the same, except that the handler cache() returns
\* when it has no handle creates no cacheStatus at all.
C1_FailOpenWhenUnavailable ==
    \A r \in CacheGets :
        LET q == reqs[r]
        IN  q.seenStatus \in {"absent", "other"} =>
                /\ StoreOps(q) = 0
                /\ q.calls # << >> /\ q.calls[Len(q.calls)] = "next"
                /\ NextCalls(q) = 1
                /\ q.cacheStatus.defined = (q.seenStatus = "other")
                /\ ~q.cacheStatus.hit
                /\ ~q.escaped

\* A GET answered downstream of a cache() that has no handle.
C1_Witness ==
    \E r \in CacheGets :
        /\ reqs[r].seenStatus = "absent"
        /\ ~reqs[r].cacheStatus.defined
        /\ reqs[r].response.sent

\* The claim of C2 as written: when get returns a non-null value for an
\* eligible GET, the handler sets hit, answers with the stored payload
\* deserialised, and never calls next.
C2_AsWritten ==
    \A r \in CacheGets :
        LET q == reqs[r]
        IN  (Resolved(q) /\ q.result # Null) =>
                /\ q.cacheStatus.hit
                /\ q.response.sent
                /\ q.response.statusCode = 200
                /\ Payload(q) = JSON_parse(q.result)
                /\ NextCalls(q) = 0
                /\ q.pc = "done"

\* C2: when get returns a non-empty value that is JSON for an eligible GET,
\* the handler sets hit, answers with the stored payload deserialised, and
\* never calls next; an empty value is a miss, and a value that is not JSON
\* sets hit and then calls next once, without wrapping the emitters.
C2_HitShortCircuits ==
    \A r \in CacheGets :
        LET q == reqs[r]
        IN  /\ (Resolved(q) /\ q.result = "") =>
                /\ ~q.cacheStatus.hit /\ q.wrapped /\ NextCalls(q) = 1
            /\ (Resolved(q) /\ Truthy(q.result) /\ JSON_parse(q.result) = SyntaxError) =>
                /\ q.cacheStatus.hit /\ ~q.wrapped /\ NextCalls(q) = 1
            /\ (Resolved(q) /\ Truthy(q.result) /\ JSON_parse(q.result) # SyntaxError) =>
                /\ q.cacheStatus.hit
                /\ q.response.sent
                /\ q.response.statusCode = 200
                /\ Payload(q) = JSON_parse(q.result)
                /\ NextCalls(q) = 0
                /\ q.pc = "done"

C2_Witness ==
    \E r \in CacheGets :
        /\ Resolved(reqs[r]) /\ JSON_parse(reqs[r].result) = "{a:2}"
        /\ reqs[r].cacheStatus.hit
        /\ reqs[r].response.sent

\* The claim of C3 as written: after a miss on K whose handler answered a JSON
\* body B with a 2xx status has written K, a later GET deriving K that reads
\* the store before K expires or is invalidated is a hit with payload B and
\* does not run its downstream handler.
C3_AsWritten ==
    \A r \in CacheGets :
        LET q == reqs[r]
        IN  (q.promised # Null /\ Resolved(q)) =>
                /\ q.cacheStatus.hit
                /\ q.response.sent /\ Payload(q) = q.promised
                /\ NextCalls(q) = 0

\* C3: every entry of the store holds the serialised body of a 2xx answer
\* under the configured ttl; a later GET deriving K that reads the store while
\* K has been neither removed nor written with another body by a concurrent
\* miss is a hit with payload B and does not run its downstream handler.
C3_RoundTrip ==
    /\ \A k \in DOMAIN store :
          store[k].ttl # 0 =>
              /\ store[k].ttl = IF cacheOptions.ttl # 0 THEN cacheOptions.ttl ELSE DefaultTtl
              /\ JSON_parse(store[k].value) \in {"{a:1}", "{a:2}"}
    /\ \A r \in CacheGets :
          LET q == reqs[r]
          IN  (q.promised # Null /\ ~q.overwritten /\ Resolved(q)) =>
                  /\ q.cacheStatus.hit
                  /\ q.response.sent /\ Payload(q) = q.promised
                  /\ NextCalls(q) = 0

C3_Witness ==
    \E r \in CacheGets :
        /\ reqs[r].promised = "{a:2}" /\ ~reqs[r].overwritten
        /\ Resolved(reqs[r])
        /\ reqs[r].response.text = "{\"a\":2}"

C5_NonGetBypass ==
    \A r \in Req :
        LET q == reqs[r]
        IN  (q.route = "cache" /\ q.method # "GET") =>
                /\ q.calls = <<"next">>
                /\ ~q.wrapped
                /\ ~q.cacheStatus.defined
                /\ q.result = NotYet
                /\ q.pendingSetex = << >>

C5_Witness ==
    \E r \in Req :
        /\ reqs[r].route = "cache" /\ reqs[r].method = "POST"
        /\ cacheClient # Null
        /\ reqs[r].response.sent

\* C6: when the timer wins the race, next is called exactly once, the emitters
\* stay unwrapped, nothing is written, and what the abandoned get returns
\* later neither answers the request nor sets hit.
C6_ReadTimeout ==
    \A r \in CacheGets :
        LET q == reqs[r]
        IN  q.result = TimedOut =>
                /\ NextCalls(q) = 1
                /\ q.calls[Len(q.calls)] = "next"
                /\ ~q.wrapped
                /\ Count(q.calls, "setex") = 0
                /\ ~q.cacheStatus.hit
                /\ q.pc \in {"downstream", "done"}

C6_Witness ==
    \E r \in CacheGets :
        /\ reqs[r].result = TimedOut
        /\ ~reqs[r].lateGet
        /\ KeyOf(reqs[r]) \in DOMAIN store
        /\ reqs[r].response.sent

\* C7: when get rejects, the handler makes no further store call, calls next
\* exactly once without an argument, and nothing escapes it.
C7_ReadFailureFailOpen ==
    \A r \in CacheGets :
        LET q == reqs[r]
        IN  q.result = Rejected =>
                /\ StoreOps(q) = 1
                /\ q.calls[Len(q.calls)] = "next"
                /\ NextCalls(q) = 1
                /\ ~q.wrapped
                /\ ~q.escaped

C7_Witness ==
    \E r \in CacheGets : reqs[r].result = Rejected /\ reqs[r].response.sent

\* C8: when isCacheable returns or resolves false, throws or rejects, the
\* handler makes no store call, calls next exactly once, lets nothing escape
\* and leaves cacheStatus at {hit: false, key: ""}.
C8_NotCacheable ==
    \A r \in CacheGets :
        LET q == reqs[r]
        IN  q.predicate \in {"false", "error"} =>
                /\ StoreOps(q) = 0
                /\ NextCalls(q) = 1
                /\ q.calls = <<"isCacheable", "next">>
                /\ ~q.escaped
                /\ q.cacheStatus = [defined |-> TRUE, hit |-> FALSE, key |-> ""]

C8_Witness ==
    \E r \in CacheGets : reqs[r].predicate = "error" /\ reqs[r].response.sent

\* C9: on a miss the body reaches the original emitter in the step that issues
\* setex, whether or not setex ever settles; when setex settles, by success or
\* by rejection, the response and the handler's outcome are what they were.
C9_Delivered ==
    \A r \in Req :
        Count(reqs[r].calls, "setex") > 0 =>
            /\ reqs[r].response.sent
            /\ reqs[r].pc = "done"
            /\ ~reqs[r].escaped

C9_SetexSettles ==
    \A r \in Req :
        Len(reqs'[r].pendingSetex) < Len(reqs[r].pendingSetex) =>
            /\ reqs'[r].response = reqs[r].response
            /\ reqs'[r].calls = reqs[r].calls
            /\ reqs'[r].escaped = reqs[r].escaped

C9_FireAndForget == []C9_Delivered /\ [][C9_SetexSettles]_vars

C9_Witness ==
    \E r \in Req :
        /\ reqs[r].pendingSetex # << >>
        /\ reqs[r].response.sent
        /\ KeyOf(reqs[r]) \notin DOMAIN store

----------------------------------------------------------------------------
(* Properties of invalidate() *)

Invalidations == {r \in Req : reqs[r].route = "invalidate"}

----------------------------------------------------------------------------
(* invalidate() under a store that may never answer *)

\* The requests through invalidate() alone, over a store other clients fill.
NextInvalidate ==
    \/ \E r \in Req, m \in Methods \ {"GET"}, u \in Urls : InvalidateRequest(r, m, u)
    \/ \E r \in Req : KeysResolve(r)
    \/ \E r \in Req : KeysReject(r)
    \/ \E r \in Req : DelResolve(r)
    \/ \E r \in Req : DelReject(r)
    \/ \E r \in Req, c \in StatusCodes, b \in Bodies : DownstreamJson(r, c, b)
    \/ \E k \in CacheKeys, v \in ForeignValues : ForeignWrite(k, v)
    \/ \E s \in Statuses : StatusChange(s)
    \/ \E r \in Req : Release(r)

\* The event loop runs every handler that is ready to run: a downstream
\* handler that was started answers, and a finished request goes away.
\* Nothing makes the store answer: keys and del settle or not.
HandlersRun ==
    /\ WF_vars(\E r \in Req, c \in StatusCodes, b \in Bodies : DownstreamJson(r, c, b))
    /\ WF_vars(\E r \in Req : Release(r))

SpecInvalidateSlowStore == Init /\ [][NextInvalidate]_vars /\ HandlersRun

\* C11: every request through invalidate() that waits for keys or del
\* eventually has its downstream continuation called, whether or not the
\* store ever answers.
C11_AsWritten ==
    \A r \in Req :
        (reqs[r].route = "invalidate" /\ reqs[r].pc \in {"keys", "del"})
            ~> (reqs[r].route = "invalidate" /\ NextCalls(reqs[r]) = 1)

\* A request through invalidate() waiting for del, its continuation not called.
C11_Witness ==
    \E r \in Invalidations :
        /\ reqs[r].pc = "del"
        /\ reqs[r].delKeys # {}
        /\ NextCalls(reqs[r]) = 0

----------------------------------------------------------------------------
(* invalidateByKey and invalidateByPattern *)

\* Names of the handles createRedisClient opens, in the order it opens them.
HandleNames == <<"h1", "h2", "h3", "h4">>

\* client.status: of the handle given to cache() and invalidate(), or of a
\* handle createRedisClient opened.
StatusOf(client) == IF client = Client THEN status ELSE handles[client].status

\* getRedisClient()
getRedisClient == redisClient

\* redisClient || getRedisClient()
ResolveClient(given) == IF given # Null THEN given ELSE getRedisClient

\* Mutant: only the absence of the handle is looked at.
ClientNotAvailable_IgnoresStatus(client) == client = Null

\* !client || client.status !== "ready"
ClientNotAvailable(client) ==
    IF client = Null THEN TRUE ELSE StatusOf(client) # "ready"

\* The call ends by throwing (its promise rejects).
Throw(q, error) == [q EXCEPT !.thrown = error, !.pc = "done"]

\* The call ends by returning (its promise resolves).
Return(q, value) == [q EXCEPT !.returned = [done |-> TRUE, value |-> value], !.pc = "done"]

\* History: what the availability check of a call had before it.
Seen(q, client) ==
    [q EXCEPT !.seenStatus = IF client = Null THEN "absent"
                             ELSE IF StatusOf(client) = "ready" THEN "ready"
                             ELSE "other"]

\* invalidateByKey(key, redisClient) up to its await.
invalidateByKey(q, given) ==
    LET client == ResolveClient(given)
        q1 == Seen(q, client)
    IN  IF ClientNotAvailable(client) THEN Throw(q1, "CacheError")
        ELSE [q1 EXCEPT !.calls = Append(@, "del"), !.delKeys = {q.arg}, !.pc = "p_del"]

\* invalidateByPattern(pattern, redisClient) up to its first await.
invalidateByPattern(q, given) ==
    LET client == ResolveClient(given)
        q1 == Seen(q, client)
    IN  IF ClientNotAvailable(client) THEN Throw(q1, "CacheError")
        ELSE [q1 EXCEPT !.calls = Append(@, "keys"), !.pc = "p_keys"]

\* keys = await client.keys(pattern); if (keys.length > 0) await client.del(...keys)
AfterPatternKeys(q, keys) ==
    IF keys # {} THEN [q EXCEPT !.calls = Append(@, "del"), !.delKeys = keys, !.pc = "p_del"]
                 ELSE Return(q, 0)

\* The del of a call settled: invalidateByPattern returns keys.length,
\* invalidateByKey returns nothing.
AfterProgDel(q) ==
    IF q.route = "invalidateByPattern" THEN Return(q, Cardinality(q.delKeys))
                                       ELSE Return(q, 0)

\* An awaited command rejected: the rejection is the call's.
AfterProgError(q) == Throw([q EXCEPT !.result = Rejected], "Error")

ByKeyCall(r, key, given) ==
    /\ Busy
    /\ FreeSlot(r)
    /\ LET q == [IdleReq EXCEPT !.route = "invalidateByKey", !.arg = key]
       IN  reqs' = [reqs EXCEPT ![r] = invalidateByKey(q, given)]
    /\ UNCHANGED <<Settings, database, Lifecycle, status, store>>

ByPatternCall(r, pattern, given) ==
    /\ Busy
    /\ FreeSlot(r)
    /\ LET q == [IdleReq EXCEPT !.route = "invalidateByPattern", !.arg = pattern]
       IN  reqs' = [reqs EXCEPT ![r] = invalidateByPattern(q, given)]
    /\ UNCHANGED <<Settings, database, Lifecycle, status, store>>

ProgKeysResolve(r) ==
    /\ Busy
    /\ reqs[r].pc = "p_keys"
    /\ reqs' = [reqs EXCEPT ![r] = AfterPatternKeys(@, Keys(@.arg))]
    /\ UNCHANGED <<Settings, database, Lifecycle, status, store>>

ProgKeysReject(r) ==
    /\ Busy
    /\ reqs[r].pc = "p_keys"
    /\ reqs' = [reqs EXCEPT ![r] = AfterProgError(@)]
    /\ UNCHANGED <<Settings, database, Lifecycle, status, store>>

ProgDelResolve(r) ==
    /\ Busy
    /\ reqs[r].pc = "p_del"
    /\ store' = Del(reqs[r].delKeys)
    /\ reqs' = [Forget(reqs, reqs[r].delKeys) EXCEPT ![r] = AfterProgDel(@)]
    /\ UNCHANGED <<Settings, database, Lifecycle, status>>

ProgDelReject(r) ==
    /\ Busy
    /\ reqs[r].pc = "p_del"
    /\ reqs' = [reqs EXCEPT ![r] = AfterProgError(@)]
    /\ UNCHANGED <<Settings, database, Lifecycle, status, store>>

\* A route cached under a key function and the default prefix, as in the
\* README's user:${id} example.
FnCache == [key |-> KeyFunction("userByUrl"), prefix |-> Null, ttl |-> 0, isCacheable |-> FALSE]

\* The keys other clients write, the keys given to invalidateByKey and the
\* patterns given to invalidateByPattern.
OtherKeys == {"cache:GET:/a", "app:user:/a"}
ByKeyArgs == {"user:/a", "cache:user:/a"}
Patterns == {"cache:*"}

InitProgrammatic ==
    /\ cacheOptions = FnCache
    /\ invOptions = [key |-> KeyFunction("userByUrl"), prefix |-> Null, pattern |-> Null]
    /\ cacheClient = Client
    /\ invClient = Client
    /\ status \in {"connecting", "ready"}
    /\ store = << >>
    /\ reqs = [r \in Req |-> IdleReq]
    /\ redisClient \in {Null, HandleNames[1]}
    /\ \E s \in {"connecting", "ready"} :
          handles = [h \in {redisClient} \ {Null} |-> [status |-> s, open |-> TRUE]]
    /\ closes = {}
    /\ closed = "none"
    /\ database = Versions[1]

NextProgrammatic ==
    \/ \E r \in Req, u \in Urls : CacheRequest(r, "GET", u, "true")
    \/ \E r \in Req : GetResolve(r)
    \/ \E r \in Req, b \in Bodies : DownstreamJson(r, 200, b)
    \/ \E r \in Req : SetexResolve(r)
    \/ \E k \in OtherKeys : ForeignWrite(k, "oops")
    \/ \E r \in Req, key \in ByKeyArgs, given \in {Null, Client} : ByKeyCall(r, key, given)
    \/ \E r \in Req, p \in Patterns, given \in {Null, Client} : ByPatternCall(r, p, given)
    \/ \E r \in Req : ProgKeysResolve(r)
    \/ \E r \in Req : ProgKeysReject(r)
    \/ \E r \in Req : ProgDelResolve(r)
    \/ \E r \in Req : ProgDelReject(r)
    \/ \E r \in Req, m \in Methods \ {"GET"}, u \in Urls : InvalidateRequest(r, m, u)
    \/ \E r \in Req : DelResolve(r)
    \/ \E r \in Req : DelReject(r)
    \/ \E s \in Statuses : StatusChange(s)
    \/ \E r \in Req : Release(r)

SpecProgrammatic == InitProgrammatic /\ [][NextProgrammatic]_vars

----------------------------------------------------------------------------
(* Properties of invalidateByKey and invalidateByPattern *)

\* The del of call r is executed in this step, and the call returns.
ProgDelStep(r) ==
    reqs[r].pc = "p_del" /\ reqs'[r].pc = "done" /\ reqs'[r].returned.done

\* The keys of the store that match a pattern.
Matching(pattern) == {k \in DOMAIN store : GlobMatch(pattern, k)}

\* The claim of C12 as written: whatever other requests did since the keys
\* lookup, the delete of invalidateByPattern(P) removes every stored key
\* matching P, leaves every other key with its value, and the call returns
\* the number of keys it deleted.
C12_AsWritten ==
    [][\A r \in Req :
          (reqs[r].route = "invalidateByPattern" /\ ProgDelStep(r)) =>
              /\ \A k \in Matching(reqs[r].arg) : k \notin DOMAIN store'
              /\ \A k \in DOMAIN store \ Matching(reqs[r].arg) :
                    k \in DOMAIN store' /\ store'[k] = store[k]
              /\ reqs'[r].returned.value = Cardinality(DOMAIN store \ DOMAIN store')]_vars

\* C12: invalidateByPattern(P) deletes the keys its lookup found, all of
\* which match P, leaves every other key with its value and returns the
\* number of keys the lookup found; when the keys matching P are the same at
\* the delete as at the lookup, it removes every stored key matching P and
\* returns the number of keys it deleted.  With no match it deletes nothing
\* and returns 0.
C12_PatternDeletesLookedUp ==
    [][\A r \in Req :
          /\ (reqs[r].route = "invalidateByPattern" /\ ProgDelStep(r)) =>
                LET looked == reqs[r].delKeys
                IN  /\ \A k \in looked : GlobMatch(reqs[r].arg, k) /\ k \notin DOMAIN store'
                    /\ \A k \in DOMAIN store \ looked :
                          k \in DOMAIN store' /\ store'[k] = store[k]
                    /\ reqs'[r].returned.value = Cardinality(looked)
                    /\ Matching(reqs[r].arg) = looked =>
                          /\ \A k \in Matching(reqs[r].arg) : k \notin DOMAIN store'
                          /\ reqs'[r].returned.value
                                = Cardinality(DOMAIN store \ DOMAIN store')
          /\ (reqs[r].pc = "p_keys" /\ reqs'[r].returned.done) =>
                /\ Matching(reqs[r].arg) = {}
                /\ store' = store
                /\ reqs'[r].returned.value = 0]_vars

\* invalidateByPattern returned 2 and a key that does not match is still there.
C12_Witness ==
    \E r \in Req :
        /\ reqs[r].route = "invalidateByPattern"
        /\ reqs[r].returned.done /\ reqs[r].returned.value = 2
        /\ \E k \in DOMAIN store : ~GlobMatch(reqs[r].arg, k)

\* The del of one key, by invalidateByKey or by invalidate() without a
\* pattern, is executed in this step.
SingleDelStep(r) ==
    \/ reqs[r].route = "invalidateByKey" /\ ProgDelStep(r)
    \/ /\ reqs[r].route = "invalidate" /\ ~Truthy(invOptions.pattern)
       /\ reqs[r].pc = "del" /\ reqs'[r].pc = "downstream"
       /\ reqs'[r].result # Rejected

\* C13: the del of a key that is not in the store leaves the store as it
\* was and is no error (invalidateByKey returns, invalidate() calls next
\* without an argument); after any del of one key, the same del again would
\* change nothing.
C13_IdempotentInvalidation ==
    [][\A r \in Req :
          SingleDelStep(r) =>
              /\ \A k \in reqs[r].delKeys :
                    k \notin DOMAIN store => store' = store
              /\ reqs'[r].thrown = ""
              /\ Count(reqs'[r].calls, "next(err)") = 0
              /\ reqs[r].delKeys \cap DOMAIN store' = {}
              /\ [k \in DOMAIN store' \ reqs[r].delKeys |-> store'[k]] = store'
              /\ \A k \in DOMAIN store \ reqs[r].delKeys :
                    k \in DOMAIN store' /\ store'[k] = store[k]]_vars

\* invalidateByKey returned after deleting a key no entry is stored under,
\* and the store has entries.
C13_Witness ==
    \E r \in Req :
        /\ reqs[r].route = "invalidateByKey"
        /\ reqs[r].arg \notin OtherKeys \cup CacheKeys
        /\ reqs[r].returned.done
        /\ store # << >>

----------------------------------------------------------------------------
(* invalidate() given a list of keys *)

\* The README's example: invalidate({ key: ["GET:/api/posts", "GET:/api/posts/recent"] })
\* on the mutating route, cache() with its defaults on the GET routes.
ListUrls == {"/a", "/b"}
KeyLists == {<<"GET:/a">>, <<"GET:/a", "GET:/b">>}

InitList ==
    /\ cacheOptions = DefaultCache
    /\ \E list \in KeyLists :
          invOptions = [key |-> KeyList(list), prefix |-> Null, pattern |-> Null]
    /\ cacheClient = Client
    /\ invClient = Client
    /\ status = "ready"
    /\ store = << >>
    /\ reqs = [r \in Req |-> IdleReq]
    /\ redisClient = Null
    /\ handles = << >>
    /\ closes = {}
    /\ closed = "none"
    /\ database = Versions[1]

NextList ==
    \/ \E r \in Req, u \in ListUrls : CacheRequest(r, "GET", u, "true")
    \/ \E r \in Req : GetResolve(r)
    \/ \E r \in Req, b \in Bodies : DownstreamJson(r, 200, b)
    \/ \E r \in Req : SetexResolve(r)
    \/ \E r \in Req, u \in Urls : InvalidateRequest(r, "POST", u)
    \/ \E r \in Req : DelResolve(r)
    \/ \E r \in Req : DelReject(r)
    \/ \E r \in Req : Release(r)

SpecList == InitList /\ [][NextList]_vars

\* The entry of the i-th key of the list, as cache() stores it.
ListEntry(i) ==
    generateCacheKey([method |-> "POST", originalUrl |-> "/a"],
                     [key |-> KeyString(invOptions.key.value[i]), prefix |-> invOptions.prefix])

\* C14: when the del of an invalidate() configured with a list of keys has
\* been executed, the entry of every key of the list is absent from the store.
C14_AsWritten ==
    [][\A r \in Req :
          (reqs[r].route = "invalidate" /\ reqs[r].pc = "del"
                /\ reqs'[r].pc = "downstream" /\ reqs'[r].result # Rejected) =>
              \A i \in 1..Len(invOptions.key.value) : ListEntry(i) \notin DOMAIN store']_vars

\* invalidate() with a list of two keys has deleted, its downstream handler
\* has answered, and the entries of both keys are in the store.
C14_Witness ==
    \E r \in Invalidations :
        /\ Len(invOptions.key.value) = 2
        /\ Count(reqs[r].calls, "del") = 1 /\ reqs[r].result # Rejected
        /\ reqs[r].response.sent
        /\ \A i \in 1..2 : ListEntry(i) \in DOMAIN store

\* The calls of invalidateByKey and invalidateByPattern.
ProgCalls == {r \in Req : reqs[r].route \in {"invalidateByKey", "invalidateByPattern"}}

\* C15: invalidateByKey and invalidateByPattern called when the handle they
\* resolve (the argument, else the singleton) is absent or not ready throw
\* a CacheError, issue no store command and do not return.
C15_ProgrammaticUnavailable ==
    \A r \in ProgCalls :
        LET q == reqs[r]
        IN  /\ q.seenStatus \in {"absent", "other"} =>
                /\ q.thrown = "CacheError"
                /\ q.calls = << >>
                /\ q.delKeys = {}
                /\ ~q.returned.done
                /\ q.pc = "done"
            /\ q.thrown = "CacheError" => q.seenStatus \in {"absent", "other"}

\* invalidateByPattern has thrown on a handle that is not ready, and the
\* store has entries.
C15_Witness ==
    \E r \in ProgCalls :
        /\ reqs[r].route = "invalidateByPattern" /\ reqs[r].seenStatus = "other"
        /\ reqs[r].thrown = "CacheError"
        /\ store # << >>

\* The key body the cached route derives for url u, and the key under which
\* cache() stores the response.
KeyBody(u) == CallKeyFunction(cacheOptions.key.value, [method |-> "GET", originalUrl |-> u])
StoredKey(u) == generateCacheKey([method |-> "GET", originalUrl |-> u], cacheOptions)

\* C16: for a route cached under cache({key: req => K}) with the default
\* prefix, when the del of a call invalidateByKey(K) has been executed the
\* entry cache() stored for K is gone from the store.
C16_AsWritten ==
    [][\A r \in Req, u \in Urls :
          (reqs[r].route = "invalidateByKey" /\ reqs[r].arg = KeyBody(u)
                /\ ProgDelStep(r)) =>
              StoredKey(u) \notin DOMAIN store']_vars

\* invalidateByKey(K) has returned and the response cache() stored for K is
\* still in the store.
C16_Witness ==
    \E r \in Req, u \in Urls :
        /\ reqs[r].route = "invalidateByKey" /\ reqs[r].arg = KeyBody(u)
        /\ reqs[r].returned.done
        /\ StoredKey(u) \in DOMAIN store
        /\ store[StoredKey(u)].ttl = EffectiveTtl(cacheOptions)

----------------------------------------------------------------------------
(* invalidate({key: "GET:" + P}) beside cache() with its default key *)

\* The README's example: cache() with the default key on the GET routes,
\* invalidate({ key: "GET:/a" }) on the mutating route, the same prefix.
InitTarget ==
    /\ \E p \in {Null, "app"} :
          /\ cacheOptions = [DefaultCache EXCEPT !.prefix = p]
          /\ invOptions = [key |-> KeyString("GET:/a"), prefix |-> p, pattern |-> Null]
    /\ cacheClient = Client
    /\ invClient = Client
    /\ status = "ready"
    /\ store = << >>
    /\ reqs = [r \in Req |-> IdleReq]
    /\ redisClient = Null
    /\ handles = << >>
    /\ closes = {}
    /\ closed = "none"
    /\ database = Versions[1]

SpecTarget == InitTarget /\ [][NextList]_vars

\* C17: the del of invalidate({key: "GET:" + P}) is the del of the one key
\* under which cache(), with its default key and the same prefix, stores the
\* response of GET P; executed, it removes that key and no other.
C17_InvalidateTargetsCacheKey ==
    [][\A r \in Req, P \in ListUrls :
          (reqs[r].route = "invalidate" /\ invOptions.key = KeyString("GET:" \o P)
                /\ reqs[r].pc = "del" /\ reqs'[r].pc = "downstream"
                /\ reqs'[r].result # Rejected) =>
              LET written == generateCacheKey([method |-> "GET", originalUrl |-> P],
                                              cacheOptions)
              IN  /\ reqs[r].delKeys = {written}
                  /\ written \notin DOMAIN store'
                  /\ \A k \in DOMAIN store \ {written} :
                        k \in DOMAIN store' /\ store'[k] = store[k]]_vars

\* The del has been executed, the downstream handler has answered, the
\* entry of GET /a is absent and the entry of GET /b is still stored.
C17_Witness ==
    \E r \in Invalidations :
        /\ invOptions.key = KeyString("GET:/a")
        /\ Count(reqs[r].calls, "del") = 1 /\ reqs[r].result # Rejected
        /\ reqs[r].response.sent
        /\ DOMAIN store = {generateCacheKey([method |-> "GET", originalUrl |-> "/b"],
                                            cacheOptions)}

----------------------------------------------------------------------------
(* redis-client.ts: the singleton handle *)

\* How many handles createRedisClient opens in a run of the model.
MaxHandles == 3

\* The handles that were opened and not closed.
OpenHandles == {h \in DOMAIN handles : handles[h].open}

\* redisClient && (redisClient.status === "ready" || redisClient.status === "connect")
Reusable(client) ==
    IF client = Null THEN FALSE ELSE handles[client].status \in {"ready", "connect"}

\* isRedisConnected()
isRedisConnected ==
    IF redisClient = Null THEN FALSE ELSE handles[redisClient].status \in {"ready", "connect"}

\* createRedisClient(): the existing handle if it can be reused, else a new
\* one, which starts connecting and becomes the singleton.
CreateRedisClient ==
    /\ IF Reusable(redisClient)
          THEN UNCHANGED <<redisClient, handles>>
          ELSE /\ Cardinality(DOMAIN handles) < MaxHandles
               /\ LET client == HandleNames[Cardinality(DOMAIN handles) + 1]
                  IN  /\ handles' = [h \in DOMAIN handles \cup {client} |->
                                        IF h = client
                                           THEN [status |-> "connecting", open |-> TRUE]
                                           ELSE handles[h]]
                      /\ redisClient' = client
    /\ closed' = "none"
    /\ UNCHANGED <<Settings, database, status, store, reqs, closes>>

\* closeRedisClient() up to its await: quit is sent on the singleton.
CloseRedisClient ==
    /\ redisClient # Null
    /\ redisClient \notin closes
    /\ closes' = closes \cup {redisClient}
    /\ UNCHANGED <<Settings, database, status, store, reqs, redisClient, handles, closed>>

\* quit resolved: the connection is ended, and the singleton is cleared.
QuitResolve(h) ==
    /\ h \in closes
    /\ closes' = closes \ {h}
    /\ handles' = [handles EXCEPT ![h] = [status |-> "end", open |-> FALSE]]
    /\ redisClient' = Null
    /\ closed' = "resolved"
    /\ UNCHANGED <<Settings, database, status, store, reqs>>

\* quit rejected: closeRedisClient rejects before its assignment.
QuitReject(h) ==
    /\ h \in closes
    /\ closes' = closes \ {h}
    /\ closed' = "rejected"
    /\ UNCHANGED <<Settings, database, status, store, reqs, redisClient, handles>>

\* The connection of an open handle moves on.
HandleStatusChange(h, s) ==
    /\ h \in OpenHandles
    /\ s \in NextStatus(handles[h].status)
    /\ handles' = [handles EXCEPT ![h].status = s]
    /\ UNCHANGED <<Settings, database, status, store, reqs, redisClient, closes, closed>>

InitLifecycle ==
    /\ cacheOptions = DefaultCache
    /\ invOptions = [key |-> KeyUndefined, prefix |-> Null, pattern |-> Null]
    /\ cacheClient = Null
    /\ invClient = Null
    /\ status = "connecting"
    /\ store = << >>
    /\ reqs = [r \in Req |-> IdleReq]
    /\ redisClient = Null
    /\ handles = << >>
    /\ closes = {}
    /\ closed = "none"
    /\ database = Versions[1]

NextLifecycle ==
    \/ CreateRedisClient
    \/ CloseRedisClient
    \/ \E h \in DOMAIN handles : QuitResolve(h)
    \/ \E h \in DOMAIN handles : QuitReject(h)
    \/ \E h \in DOMAIN handles, s \in Statuses : HandleStatusChange(h, s)

SpecLifecycle == InitLifecycle /\ [][NextLifecycle]_vars

\* C18: at most one handle is open at any time, and createRedisClient called
\* while the singleton is connecting or ready opens no handle and leaves the
\* singleton as it is.
C18_AtMostOne == Cardinality(OpenHandles) <= 1

C18_ReusesConnectingOrReady ==
    (/\ redisClient # Null
     /\ closed' = "none" /\ closes' = closes /\ handles[redisClient].open
     /\ handles[redisClient].status \in {"connecting", "ready"}
     /\ \A h \in DOMAIN handles : handles'[h] = handles[h])
        => (handles' = handles /\ redisClient' = redisClient)

C18_AsWritten == []C18_AtMostOne /\ [][C18_ReusesConnectingOrReady]_vars

\* Two handles are open, the one createRedisClient opened while the other
\* was still connecting.
C18_Witness ==
    /\ Cardinality(OpenHandles) = 2
    /\ \A h \in OpenHandles : handles[h].status = "connecting"

\* C19: once a call of closeRedisClient has finished, whether quit succeeded
\* or failed, getRedisClient() is null and isRedisConnected() is false, until
\* createRedisClient is called again.
C19_AsWritten ==
    closed \in {"resolved", "rejected"} => (getRedisClient = Null /\ ~isRedisConnected)

\* closeRedisClient has finished with quit failing, and the singleton is
\* still set and counted as connected.
C19_Witness ==
    /\ closed = "rejected"
    /\ getRedisClient # Null
    /\ isRedisConnected

----------------------------------------------------------------------------
(* generateCacheKey *)

\* The requests and configurations generateCacheKey is called with.
KeyUrls == {"/a", "/b", "/api/users?x=1"}
KeySpecs == {KeyUndefined, KeyString(""), KeyString("k"), KeyString("GET:/a"),
             KeyFunction("userByUrl"), KeyFunction("fixed")}
Prefixes == {Null, "", "app"}

InitKeys ==
    /\ \E k \in KeySpecs, p \in Prefixes :
          cacheOptions = [key |-> k, prefix |-> p, ttl |-> 0, isCacheable |-> FALSE]
    /\ invOptions = [key |-> KeyUndefined, prefix |-> Null, pattern |-> Null]
    /\ cacheClient = Client
    /\ invClient = Client
    /\ status = "ready"
    /\ store = << >>
    /\ reqs = [r \in Req |-> IdleReq]
    /\ redisClient = Null
    /\ handles = << >>
    /\ closes = {}
    /\ closed = "none"
    /\ database = Versions[1]

\* generateCacheKey(req, options) is called and returns.
DeriveKey(r, m, u) ==
    /\ Busy
    /\ FreeSlot(r)
    /\ LET q == [IdleReq EXCEPT !.route = "generateCacheKey", !.method = m,
                                !.originalUrl = u]
       IN  reqs' = [reqs EXCEPT ![r] = [q EXCEPT !.derived = generateCacheKey(q, cacheOptions),
                                                 !.pc = "done"]]
    /\ UNCHANGED <<Settings, database, Lifecycle, status, store>>

NextKeys ==
    \/ \E r \in Req, m \in Methods, u \in KeyUrls : DeriveKey(r, m, u)
    \/ \E r \in Req : Release(r)

SpecKeys == InitKeys /\ [][NextKeys]_vars

Derivations == {r \in Req : reqs[r].route = "generateCacheKey"}

\* What the rules of the claim make of a request under a configuration,
\* an empty literal key being used verbatim or treated as no key.
DerivedByRules(q, options, emptyVerbatim) ==
    LET prefix == IF options.prefix \in {Null, ""} THEN "cache" ELSE options.prefix
        body == CASE options.key.type = "function" ->
                        IF options.key.value = "userByUrl" THEN "user:" \o q.originalUrl
                                                           ELSE options.key.value
                  [] /\ options.key.type = "string"
                     /\ (emptyVerbatim \/ options.key.value # "") ->
                        options.key.value
                  [] OTHER -> q.method \o ":" \o q.originalUrl
    IN  prefix \o ":" \o body

\* The claim of C20 as written: the key is prefix:body, the prefix being
\* config.prefix or "cache", the body the function's result, any literal
\* string verbatim, or else method:originalUrl.
C20_AsWritten ==
    \A r \in Derivations :
        reqs[r].derived = DerivedByRules(reqs[r], cacheOptions, TRUE)

\* C20: the same, a literal key being used verbatim when it is not empty,
\* and an empty one being treated as no key.
C20_Rules ==
    \A r \in Derivations :
        reqs[r].derived = DerivedByRules(reqs[r], cacheOptions, FALSE)

\* A call changes nothing but its own result.
C20_Frame ==
    \A r \in Req :
        (reqs[r].route # "generateCacheKey" /\ reqs'[r].route = "generateCacheKey") =>
            /\ UNCHANGED <<Settings, database, Lifecycle, status, store>>
            /\ \A s \in Req \ {r} : reqs'[s] = reqs[s]

C20_KeyDerivation == []C20_Rules /\ [][C20_Frame]_vars

\* GET /api/users?x=1 under the default configuration.
C20_Witness ==
    \E r \in Derivations :
        /\ cacheOptions.key = KeyUndefined /\ cacheOptions.prefix = Null
        /\ reqs[r].method = "GET"
        /\ reqs[r].derived = "cache:GET:/api/users?x=1"

----------------------------------------------------------------------------
(* generateCacheKey under two configurations *)

\* const prefix = options.prefix || "cache"
PrefixOf(options) == IF Truthy(options.prefix) THEN options.prefix ELSE "cache"

\* The key body: options.key(req), options.key, or method:originalUrl.
BodyOf(req, options) ==
    IF options.key.type = "function" THEN CallKeyFunction(options.key.value, req)
    ELSE IF options.key.type = "array" THEN ArrayToString(options.key.value)
    ELSE IF Truthy(options.key.value) THEN options.key.value
    ELSE req.method \o ":" \o req.originalUrl

\* Prefixes and keys of two routes of one application.
PairPrefixes == {Null, "app", "app:user"}
PairKeys == {KeyUndefined, KeyString("1"), KeyString("user:1"), KeyFunction("userByUrl")}

InitPairs ==
    /\ \E k \in PairKeys, p \in PairPrefixes :
          cacheOptions = [key |-> k, prefix |-> p, ttl |-> 0, isCacheable |-> FALSE]
    /\ \E k \in PairKeys, p \in PairPrefixes :
          invOptions = [key |-> k, prefix |-> p, pattern |-> Null]
    /\ cacheClient = Client
    /\ invClient = Client
    /\ status = "ready"
    /\ store = << >>
    /\ reqs = [r \in Req |-> IdleReq]
    /\ redisClient = Null
    /\ handles = << >>
    /\ closes = {}
    /\ closed = "none"
    /\ database = Versions[1]

\* The options a derivation was made under.
OptionsOf(q) == IF q.route = "generateCacheKey(invalidate)" THEN invOptions ELSE cacheOptions

\* generateCacheKey is called under the options of cache() or of
\* invalidate(); its result is kept by the caller.
DeriveKeyUnder(r, m, u, route) ==
    /\ reqs[r].pc = "idle"
    /\ LET q == [IdleReq EXCEPT !.route = route, !.method = m, !.originalUrl = u]
       IN  reqs' = [reqs EXCEPT ![r] = [q EXCEPT !.derived = generateCacheKey(q, OptionsOf(q)),
                                                 !.pc = "derived"]]
    /\ UNCHANGED <<Settings, database, Lifecycle, status, store>>

\* The caller is done with the key.
DropKey(r) ==
    /\ reqs[r].pc = "derived"
    /\ reqs' = [reqs EXCEPT ![r] = IdleReq]
    /\ UNCHANGED <<Settings, database, Lifecycle, status, store>>

NextPairs ==
    \/ \E r \in Req, m \in Methods, u \in Urls,
          route \in {"generateCacheKey", "generateCacheKey(invalidate)"} :
          DeriveKeyUnder(r, m, u, route)
    \/ \E r \in Req : DropKey(r)

SpecPairs == InitPairs /\ [][NextPairs]_vars

Derived == {r \in Req : reqs[r].pc = "derived"}

\* C21: two derivations whose (prefix, key body) pairs differ return
\* different keys.
C21_AsWritten ==
    \A r1, r2 \in Derived :
        LET q1 == reqs[r1]
            q2 == reqs[r2]
        IN  <<PrefixOf(OptionsOf(q1)), BodyOf(q1, OptionsOf(q1))>>
                # <<PrefixOf(OptionsOf(q2)), BodyOf(q2, OptionsOf(q2))>>
            => q1.derived # q2.derived

\* Two derivations whose prefixes differ and whose key bodies differ have
\* returned the same key.
C21_Witness ==
    \E r1, r2 \in Derived :
        LET q1 == reqs[r1]
            q2 == reqs[r2]
        IN  /\ PrefixOf(OptionsOf(q1)) # PrefixOf(OptionsOf(q2))
            /\ BodyOf(q1, OptionsOf(q1)) # BodyOf(q2, OptionsOf(q2))
            /\ q1.derived = q2.derived

----------------------------------------------------------------------------
(* healthCheck *)

\* What Date.now() - start can be.
Latencies == {0, 1, 3, 10}

Pong == "PONG"

\* healthCheck(redisClient) up to its await.  The handle is the argument:
\* there is no fallback to getRedisClient().
healthCheck(q, given) ==
    LET q1 == Seen(q, given)
    IN  IF ClientNotAvailable(given) THEN Return(q1, [status |-> "disconnected"])
        ELSE [q1 EXCEPT !.calls = Append(@, "ping"), !.pc = "h_ping"]

\* await redisClient.ping() resolved: latency = Date.now() - start.
AfterPing(q, latency) ==
    Return([q EXCEPT !.result = Pong], [status |-> "connected", latency |-> latency])

\* Mutant: the rejection of the ping is the call's.
AfterPingError_Throws(q) == Throw([q EXCEPT !.result = Rejected], "Error")

\* catch (error) { return { status: "error" } }
AfterPingError(q) == Return([q EXCEPT !.result = Rejected], [status |-> "error"])

HealthCheckCall(r, given) ==
    /\ Busy
    /\ FreeSlot(r)
    /\ LET q == [IdleReq EXCEPT !.route = "healthCheck"]
       IN  reqs' = [reqs EXCEPT ![r] = healthCheck(q, given)]
    /\ UNCHANGED <<Settings, database, Lifecycle, status, store>>

PingResolve(r, latency) ==
    /\ Busy
    /\ reqs[r].pc = "h_ping"
    /\ reqs' = [reqs EXCEPT ![r] = AfterPing(@, latency)]
    /\ UNCHANGED <<Settings, database, Lifecycle, status, store>>

PingReject(r) ==
    /\ Busy
    /\ reqs[r].pc = "h_ping"
    /\ reqs' = [reqs EXCEPT ![r] = AfterPingError(@)]
    /\ UNCHANGED <<Settings, database, Lifecycle, status, store>>

InitHealth ==
    /\ cacheOptions = DefaultCache
    /\ invOptions = [key |-> KeyUndefined, prefix |-> Null, pattern |-> Null]
    /\ cacheClient = Client
    /\ invClient = Client
    /\ status \in Statuses
    /\ store = << >>
    /\ reqs = [r \in Req |-> IdleReq]
    /\ redisClient = Null
    /\ handles = << >>
    /\ closes = {}
    /\ closed = "none"
    /\ database = Versions[1]

NextHealth ==
    \/ \E r \in Req, given \in {Null, Client} : HealthCheckCall(r, given)
    \/ \E r \in Req, latency \in Latencies : PingResolve(r, latency)
    \/ \E r \in Req : PingReject(r)
    \/ \E s \in Statuses : StatusChange(s)
    \/ \E r \in Req : Release(r)

SpecHealth == InitHealth /\ [][NextHealth]_vars

HealthChecks == {r \in Req : reqs[r].route = "healthCheck"}

\* C22: healthCheck never throws; it returns status "disconnected" without a
\* ping when the handle is absent or not ready, status "connected" with a
\* latency when the handle is ready and the ping succeeds, and status "error"
\* when the handle is ready and the ping fails.
C22_HealthCheckClassifies ==
    \A r \in HealthChecks :
        LET q == reqs[r]
        IN  /\ q.thrown = "" /\ ~q.escaped
            /\ q.pc \in {"h_ping", "done"}
            /\ q.pc = "done" <=> q.returned.done
            /\ q.seenStatus \in {"absent", "other"} =>
                  /\ q.calls = << >>
                  /\ q.returned = [done |-> TRUE, value |-> [status |-> "disconnected"]]
            /\ q.seenStatus = "ready" =>
                  /\ q.calls = <<"ping">>
                  /\ q.result = NotYet => q.pc = "h_ping"
                  /\ q.result = Pong =>
                        \E l \in Latencies :
                            q.returned = [done |-> TRUE,
                                          value |-> [status |-> "connected", latency |-> l]]
                  /\ q.result = Rejected =>
                        q.returned = [done |-> TRUE, value |-> [status |-> "error"]]

\* A health check found the handle ready, its ping failed, and it returned
\* status "error".
C22_Witness ==
    \E r \in HealthChecks :
        /\ reqs[r].seenStatus = "ready"
        /\ reqs[r].result = Rejected
        /\ reqs[r].returned.done
        /\ reqs[r].returned.value.status = "error"

----------------------------------------------------------------------------
(* invalidate() given a pattern and a key *)

\* invalidate({ key: "GET:/a", pattern }) on the mutating route, cache() with
\* its defaults on the GET routes /a and /b.
BothPatterns == {"*:/b", "app:*", ""}

InitBoth ==
    /\ cacheOptions = DefaultCache
    /\ \E p \in BothPatterns :
          invOptions = [key |-> KeyString("GET:/a"), prefix |-> Null, pattern |-> p]
    /\ cacheClient = Client
    /\ invClient = Client
    /\ status = "ready"
    /\ store = << >>
    /\ reqs = [r \in Req |-> IdleReq]
    /\ redisClient = Null
    /\ handles = << >>
    /\ closes = {}
    /\ closed = "none"
    /\ database = Versions[1]

NextBoth ==
    \/ \E r \in Req, u \in ListUrls : CacheRequest(r, "GET", u, "true")
    \/ \E r \in Req : GetResolve(r)
    \/ \E r \in Req, b \in Bodies : DownstreamJson(r, 200, b)
    \/ \E r \in Req : SetexResolve(r)
    \/ \E r \in Req, u \in Urls : InvalidateRequest(r, "POST", u)
    \/ \E r \in Req : KeysResolve(r)
    \/ \E r \in Req : KeysReject(r)
    \/ \E r \in Req : DelResolve(r)
    \/ \E r \in Req : DelReject(r)
    \/ \E r \in Req : Release(r)

SpecBoth == InitBoth /\ [][NextBoth]_vars

\* What the handler of an invalidation has done so far is a pattern lookup and,
\* for a non-empty result, one del of keys that matched; the key is not derived.
PatternOnlyState ==
    \A r \in Invalidations :
        LET q == reqs[r]
        IN  /\ Count(q.calls, "generateCacheKey") = 0
            /\ Count(q.calls, "keys") = 1
            /\ Count(q.calls, "del") <= 1
            /\ q.pc = "del" =>
                  /\ q.delKeys # {}
                  /\ \A k \in q.delKeys : GlobMatch(invOptions.pattern, k)

\* An empty lookup is followed by next() with no del, and the del of an
\* invalidation leaves every entry that does not match the pattern as it is.
PatternOnlyStep ==
    \A r \in Invalidations :
        /\ (reqs[r].pc = "keys" /\ reqs'[r].pc # "keys" /\ reqs'[r].result # Rejected
                /\ Keys(invOptions.pattern) = {}) =>
              /\ reqs'[r].calls = Append(reqs[r].calls, "next")
              /\ store' = store
        /\ (reqs[r].pc = "del" /\ reqs'[r].pc # "del") =>
              \A k \in DOMAIN store :
                  ~GlobMatch(invOptions.pattern, k) =>
                      k \in DOMAIN store' /\ store'[k] = store[k]

\* C23 as written: whenever the configuration has a pattern, the handler
\* only looks up and deletes the keys matching the pattern.
C23_AsWritten ==
    /\ [](invOptions.pattern # Null => PatternOnlyState)
    /\ [][invOptions.pattern # Null => PatternOnlyStep]_vars

\* C23: when the configuration of invalidate() has a non-empty pattern, the
\* handler looks up the keys matching the pattern and deletes them in one
\* batch; it never derives the key of the key specification, deletes no
\* entry that does not match, and issues no del when no key matches.
C23_PatternTakesPrecedence ==
    /\ [](Truthy(invOptions.pattern) => PatternOnlyState)
    /\ [][Truthy(invOptions.pattern) => PatternOnlyStep]_vars

\* An invalidation configured with a pattern and a key has deleted the
\* entries matching the pattern and called next; the entry of the key
\* specification is still stored.
C23_Witness ==
    \E r \in Invalidations :
        /\ Truthy(invOptions.pattern)
        /\ reqs[r].calls = <<"keys", "del", "next">>
        /\ generateCacheKey(reqs[r], invOptions) \in DOMAIN store
        /\ \A k \in DOMAIN store : ~GlobMatch(invOptions.pattern, k)

----------------------------------------------------------------------------
(* Store writes of one miss *)

\* C24: for one GET miss at most one setex is issued, however the downstream
\* handler emits the response.
C24_AsWritten ==
    \A r \in CacheGets : Count(reqs[r].calls, "setex") <= 1

\* A miss whose downstream handler emitted one 2xx response has issued two
\* setex commands: one from the res.json wrapper and one from the res.end
\* wrapper the original res.json finishes through.
C24_Witness ==
    \E r \in CacheGets :
        /\ reqs[r].wrapped
        /\ reqs[r].response.sent
        /\ IsSuccess(reqs[r].response.statusCode)
        /\ Count(reqs[r].calls, "setex") = 2
        /\ Len(reqs[r].pendingSetex) = 2
        /\ reqs[r].pendingSetex[1] = reqs[r].pendingSetex[2]

----------------------------------------------------------------------------
(* Availability: the handlers and the singleton *)

\* The application opens the singleton with createRedisClient() and gives it
\* to cache() and invalidate(): the handle of the handlers is the singleton.
InitPolicy ==
    /\ cacheOptions = DefaultCache
    /\ invOptions = [key |-> KeyUndefined, prefix |-> Null, pattern |-> Null]
    /\ cacheClient = Client
    /\ invClient = Client
    /\ status = "connecting"
    /\ store = << >>
    /\ reqs = [r \in Req |-> IdleReq]
    /\ redisClient = HandleNames[1]
    /\ handles = [h \in {HandleNames[1]} |-> [status |-> "connecting", open |-> TRUE]]
    /\ closes = {}
    /\ closed = "none"
    /\ database = Versions[1]

\* The connection of the singleton moves on; the handlers read the same status.
SingletonStatusChange(s) ==
    /\ Busy
    /\ s \in NextStatus(status)
    /\ status' = s
    /\ handles' = [handles EXCEPT ![redisClient].status = s]
    /\ UNCHANGED <<Settings, database, store, reqs, redisClient, closes, closed>>

NextPolicy ==
    \/ \E r \in Req, u \in Urls : CacheRequest(r, "GET", u, "true")
    \/ \E r \in Req : GetResolve(r)
    \/ \E r \in Req, b \in Bodies : DownstreamJson(r, 200, b)
    \/ \E r \in Req : SetexResolve(r)
    \/ \E r \in Req, u \in Urls : InvalidateRequest(r, "POST", u)
    \/ \E r \in Req : DelResolve(r)
    \/ \E r \in Req : DelReject(r)
    \/ \E s \in Statuses : SingletonStatusChange(s)
    \/ \E r \in Req : Release(r)

SpecPolicy == InitPolicy /\ [][NextPolicy]_vars

\* The availability check of a handler is made in this step.
Checks(r) == reqs[r].seenStatus = "" /\ reqs'[r].seenStatus # ""

\* A handler that makes its availability check attempts store I/O exactly
\* when the status of the handle is in the set.
AttemptsIn(available) ==
    \A r \in Req : Checks(r) => (StoreOps(reqs'[r]) > 0 <=> status \in available)

\* The handlers pass the availability check.
AvailableToHandlers ==
    ~RedisNotAvailable(cacheClient, status) /\ ~RedisNotAvailable(invClient, status)

\* C25 as written: the handlers attempt store I/O when the status is ready or
\* connecting and pass through otherwise, and these are the statuses for
\* which createRedisClient reuses the handle and isRedisConnected is true.
C25_AsWritten ==
    /\ [][AttemptsIn({"ready", "connecting"})]_vars
    /\ [](AvailableToHandlers <=> Reusable(redisClient))
    /\ [](AvailableToHandlers <=> isRedisConnected)

\* C25: the handlers attempt store I/O when the status of the handle is
\* ready and pass through in every other status, connecting included;
\* createRedisClient reuses the handle and isRedisConnected is true when the
\* status is ready or connect.
C25_AvailabilityPolicy ==
    /\ [][AttemptsIn({"ready"})]_vars
    /\ [](Reusable(redisClient) <=> status \in {"ready", "connect"})
    /\ [](isRedisConnected <=> status \in {"ready", "connect"})
    /\ [](AvailableToHandlers <=> status = "ready")

\* While the handle is connecting a handler has made its availability check
\* and passed through without store I/O.
C25_Witness ==
    \E r \in Req :
        /\ status = "connecting"
        /\ reqs[r].seenStatus = "other"
        /\ StoreOps(reqs[r]) = 0
        /\ NextCalls(reqs[r]) = 1
        /\ ~Reusable(redisClient)

----------------------------------------------------------------------------
(* cache(): a continuation that raises *)

\* The miss branch when next() throws: the call at the end of the try block
\* raises into the catch block, which logs and calls next() again.
MissNextThrows(q) ==
    CatchRead([q EXCEPT !.wrapped = TRUE, !.calls = Append(@, "next")])

\* The race settles with a miss and the continuation raises.
GetResolveNextThrows(r) ==
    /\ Busy
    /\ reqs[r].pc = "get"
    /\ ~Truthy(Get(reqs[r].cacheStatus.key))
    /\ reqs' = [reqs EXCEPT ![r] =
                  MissNextThrows([@ EXCEPT !.result = Get(reqs[r].cacheStatus.key)])]
    /\ UNCHANGED <<Settings, database, Lifecycle, status, store>>

InitOutcome ==
    /\ cacheOptions = DefaultCache
    /\ invOptions = [key |-> KeyUndefined, prefix |-> Null, pattern |-> Null]
    /\ cacheClient = Client
    /\ invClient = Client
    /\ status = "ready"
    /\ store = << >>
    /\ reqs = [r \in Req |-> IdleReq]
    /\ redisClient = Null
    /\ handles = << >>
    /\ closes = {}
    /\ closed = "none"
    /\ database = Versions[1]

NextOutcome ==
    \/ \E r \in Req, u \in Urls : CacheRequest(r, "GET", u, "true")
    \/ \E r \in Req : GetResolve(r)
    \/ \E r \in Req : GetResolveNextThrows(r)
    \/ \E r \in Req : GetReject(r)
    \/ \E r \in Req : GetTimeout(r)
    \/ \E r \in Req : LateGetSettle(r)
    \/ \E r \in Req, b \in Bodies : DownstreamJson(r, 200, b)
    \/ \E r \in Req : SetexResolve(r)
    \/ \E k \in CacheKeys, v \in ForeignValues : ForeignWrite(k, v)
    \/ \E r \in Req : Release(r)

SpecOutcome == InitOutcome /\ [][NextOutcome]_vars

\* The handler answered with the payload it read from the store.
CachedPayloadEmitted(q) ==
    /\ q.cacheStatus.hit
    /\ q.response.sent
    /\ JSON_parse(q.result) # SyntaxError
    /\ Payload(q) = JSON_parse(q.result)

\* C26: for every GET in which the get settled or timed out, either the
\* cached payload is emitted or the continuation is called, exactly once:
\* never both, never neither, and the continuation never twice, also when the
\* stored value is not valid JSON or the continuation raises.
C26_AsWritten ==
    \A r \in CacheGets :
        reqs[r].result # NotYet =>
            /\ NextCalls(reqs[r]) <= 1
            /\ NextCalls(reqs[r]) = 0 <=> CachedPayloadEmitted(reqs[r])

\* A GET whose get settled with a miss has called the continuation twice.
C26_Witness ==
    \E r \in CacheGets :
        /\ reqs[r].result = Null
        /\ reqs[r].wrapped
        /\ reqs[r].calls = <<"generateCacheKey", "get", "next", "next">>

----------------------------------------------------------------------------
(* res.locals.cacheStatus *)

\* C27: cacheStatus.hit is true only if the response of the request was
\* served from the store; whenever the downstream handler runs for a request
\* its cacheStatus.hit is false; cacheStatus.key is "" or the key derived for
\* the request.
C27_AsWritten ==
    \A r \in CacheGets :
        LET q == reqs[r]
        IN  q.cacheStatus.defined =>
                /\ q.cacheStatus.hit => CachedPayloadEmitted(q)
                /\ NextCalls(q) > 0 => ~q.cacheStatus.hit
                /\ q.cacheStatus.key \in {"", KeyOf(q)}

\* The downstream handler answered a GET whose cacheStatus.hit is true: the
\* stored value was not valid JSON.
C27_Witness ==
    \E r \in CacheGets :
        /\ reqs[r].cacheStatus.hit
        /\ JSON_parse(reqs[r].result) = SyntaxError
        /\ NextCalls(reqs[r]) = 1
        /\ reqs[r].response.sent

----------------------------------------------------------------------------
(* A GET route under cache() and a mutating route under invalidate() *)

\* app.get("/a", cache({ redisClient }), handler) and
\* app.post("/a", invalidate({ key: "GET:/a", redisClient }), handler): the
\* GET handler answers with the resource, the POST handler changes it.
InitRoutes ==
    /\ cacheOptions = DefaultCache
    /\ invOptions = [key |-> KeyString("GET:/a"), prefix |-> Null, pattern |-> Null]
    /\ cacheClient = Client
    /\ invClient = Client
    /\ status = "ready"
    /\ store = << >>
    /\ reqs = [r \in Req |-> IdleReq]
    /\ redisClient = Null
    /\ handles = << >>
    /\ closes = {}
    /\ closed = "none"
    /\ database = Versions[1]

\* The handler of the GET route answers with what the data source holds.
DownstreamRead(r) ==
    /\ Busy
    /\ reqs[r].route = "cache"
    /\ reqs[r].pc = "downstream"
    /\ reqs' = [reqs EXCEPT ![r] = res_json(@, 200, database)]
    /\ UNCHANGED <<Settings, database, Lifecycle, status, store>>

\* The handler of the mutating route changes the resource and answers.
DownstreamMutate(r) ==
    /\ Busy
    /\ reqs[r].route = "invalidate"
    /\ reqs[r].pc = "downstream"
    /\ database' = Versions[2]
    /\ reqs' = [reqs EXCEPT ![r] = res_json(@, 200, Versions[2])]
    /\ UNCHANGED <<Settings, Lifecycle, status, store>>

NextRoutes ==
    \/ \E r \in Req, u \in Urls : CacheRequest(r, "GET", u, "true")
    \/ \E r \in Req : GetResolve(r)
    \/ \E r \in Req : DownstreamRead(r)
    \/ \E r \in Req : SetexResolve(r)
    \/ \E r \in Req, u \in Urls : InvalidateRequest(r, "POST", u)
    \/ \E r \in Req : DelResolve(r)
    \/ \E r \in Req : DownstreamMutate(r)
    \/ \E r \in Req : Release(r)

SpecRoutes == InitRoutes /\ [][NextRoutes]_vars

\* A mutating request has completed: its del was executed and its handler
\* changed the resource.
Mutated == database = Versions[2]

\* C28: once a mutating request has completed, an entry readable at the key
\* was produced by a GET handler run that started after the mutation: it
\* holds the resource as the mutation left it.
C28_AsWritten ==
    Mutated => \A k \in CacheKeys : Get(k) \in {Null, JSON_stringify(database)}

\* The mutating request has completed, no request is in flight, and the
\* store holds the resource as it was before the mutation.
C28_Witness ==
    /\ Mutated
    /\ \A r \in Req : reqs[r].pc = "idle"
    /\ \E k \in CacheKeys : Get(k) = JSON_stringify(Versions[1])

=============================================================================
